---- MODULE Spec2Model ----
(***************************************************************************)
(* A model of calculate_pi.py: the three estimators of pi                  *)
(* (calculate_pi_monte_carlo, calculate_pi_leibniz,                        *)
(* calculate_pi_buffon_needle), the divergence formatter                   *)
(* format_pi_with_color and the report sequence of main.                   *)
(*                                                                         *)
(* Every function is modelled statement by statement with its locals as    *)
(* variables.  Each function has a specification of its own (SpecFormat,   *)
(* SpecMonteCarlo, ...) whose Init draws the arguments from bounded sets.  *)
(***************************************************************************)
EXTENDS Integers, Sequences, FiniteSets

VARIABLES
    \* format_pi_with_color: arguments, locals, program counter, return value
    value, reference, value_str, reference_str, result, diverged, fi, fpc, fret,
    \* calculate_pi_monte_carlo: argument, locals, program counter, outcome
    iterations, inside_circle, mc_i, mc_x, mc_y, distance, pi_estimate, mc_pc,
    \* calculate_pi_buffon_needle: arguments, locals, program counter, outcome
    drops, needle_length, line_distance, crosses, bn_i, bn_y, theta, y_end,
    bn_ret, bn_pc,
    \* calculate_pi_leibniz: argument, locals, program counter, return value
    terms, pi_over_4, lz_n, numerator, denominator, term, lz_ret, lz_pc,
    \* getcontext().prec, the precision of the thread's decimal context
    ctx_prec,
    \* getcontext().prec as it was when calculate_pi_leibniz was last called
    prec_at_call,
    \* another user of decimal: the precision it set (0: none yet), its quotient
    other_prec, other_val,
    \* main: locals, the summary rows and emission rows printed, program counter
    pi_monte_carlo, pi_leibniz, pi_buffon, emissions_data, rows, emission_rows,
    total_emissions, mn_pc,
    \* the random source: how many times random.random() has been called
    draws

fmtVars == <<value, reference, value_str, reference_str, result, diverged, fi, fpc, fret>>

mcVars == <<iterations, inside_circle, mc_i, mc_x, mc_y, distance, pi_estimate, mc_pc>>

bnVars == <<drops, needle_length, line_distance, crosses, bn_i, bn_y, theta, y_end,
            bn_ret, bn_pc>>

lzVars == <<terms, pi_over_4, lz_n, numerator, denominator, term, lz_ret, lz_pc,
            ctx_prec, prec_at_call, other_prec, other_val>>

mainVars == <<pi_monte_carlo, pi_leibniz, pi_buffon, emissions_data, rows,
              emission_rows, total_emissions, mn_pc>>

vars == <<fmtVars, mcVars, bnVars, lzVars, mainVars, draws>>

\* what each function leaves alone
notFmt == <<mcVars, bnVars, lzVars, mainVars, draws>>
notMc == <<fmtVars, bnVars, lzVars, mainVars>>
notBn == <<fmtVars, mcVars, lzVars, mainVars>>
notLz == <<fmtVars, mcVars, bnVars, mainVars, draws>>
notMain == <<fmtVars, mcVars, bnVars, lzVars, draws>>

----------------------------------------------------------------------------
(* Small arithmetic helpers.                                               *)

Min(a, b) == IF a <= b THEN a ELSE b

Abs(a) == IF a < 0 THEN -a ELSE a

RECURSIVE Pow(_, _)
Pow(b, n) == IF n = 0 THEN 1 ELSE b * Pow(b, n - 1)

----------------------------------------------------------------------------
(* Floating point.                                                         *)
(*                                                                         *)
(* A non-negative float is represented by a natural number of quanta of    *)
(* 2^-(2*FloatBits).  The representable values are those with at most      *)
(* FloatBits significant bits; every operation returns the representable   *)
(* value nearest to the exact result, ties to even, as IEEE 754 arithmetic *)
(* does.  The code computes with 53 significant bits; the model with       *)
(* FloatBits.                                                              *)

FloatBits == 3

\* the float 1.0
One == Pow(2, 2 * FloatBits)

\* number of bits of a natural number
RECURSIVE BitLen(_)
BitLen(n) == IF n = 0 THEN 0 ELSE 1 + BitLen(n \div 2)

\* floor of the square root of a natural number
RECURSIVE ISqrt(_)
ISqrt(m) == IF m < 2 THEN m
            ELSE LET r == 2 * ISqrt(m \div 4)
                 IN  IF (r + 1) * (r + 1) <= m THEN r + 1 ELSE r

\* the float nearest to num / den quanta (num >= 0, den > 0), ties to even
RoundRat(num, den) ==
    LET f    == num \div den
        e    == IF BitLen(f) > FloatBits THEN BitLen(f) - FloatBits ELSE 0
        step == den * Pow(2, e)
        q    == num \div step
        rem  == num - q * step
        up   == (2 * rem > step) \/ (2 * rem = step /\ q % 2 = 1)
    IN  (IF up THEN q + 1 ELSE q) * Pow(2, e)

\* a * b, a + b, a / n for floats a, b and a positive integer n
FMul(a, b) == RoundRat(a * b, One)
FAdd(a, b) == RoundRat(a + b, 1)
FDivInt(a, n) == RoundRat(a, n)

\* float(n) for a natural number n
FFromInt(n) == RoundRat(n * One, 1)

\* s ** 0.5: the float nearest to the square root of s
FSqrt(s) ==
    LET m    == s * One
        r    == ISqrt(m)
        e    == IF BitLen(r) > FloatBits THEN BitLen(r) - FloatBits ELSE 0
        step == Pow(2, e)
        low  == (r \div step) * step
        mid2 == 2 * low + step          \* twice the midpoint of low, low + step
        up   == (4 * m > mid2 * mid2)
                  \/ (4 * m = mid2 * mid2 /\ (r \div step) % 2 = 1)
    IN  IF r * r = m /\ low = r THEN r
        ELSE IF up THEN low + step ELSE low

\* random.random(): the multiples of 2^-FloatBits in [0, 1)
RandomFloats == {k * Pow(2, FloatBits) : k \in 0 .. (Pow(2, FloatBits) - 1)}

----------------------------------------------------------------------------
(* format_pi_with_color (lines 103-132).                                   *)
(*                                                                         *)
(* The arguments are floats of either sign: an integer number of quanta.   *)
(* The code renders 20 fractional digits; the model renders DecimalPlaces. *)

DecimalPlaces == 2

\* arguments range over the floats of magnitude at most MaxArgUnits
MaxArgUnits == 11

Representable(n) == RoundRat(n, 1) = n

FloatsUpTo(m) == {n \in 0 .. m : Representable(n)}

FloatArgs == {s * n : s \in {-1, 1}, n \in FloatsUpTo(MaxArgUnits * One)}

DigitChar(d) == <<"0", "1", "2", "3", "4", "5", "6", "7", "8", "9">>[d + 1]

\* the decimal digits of a natural number, most significant first, no padding
RECURSIVE IntDigits(_)
IntDigits(n) == IF n < 10 THEN <<DigitChar(n)>>
                ELSE Append(IntDigits(n \div 10), DigitChar(n % 10))

\* exactly k decimal digits of n < 10^k, zero padded on the left
RECURSIVE FracDigits(_, _)
FracDigits(n, k) == IF k = 0 THEN <<>>
                    ELSE Append(FracDigits(n \div 10, k - 1), DigitChar(n % 10))

\* the integer nearest to num / den (num >= 0, den > 0), ties to even
RoundHalfEven(num, den) ==
    LET q   == num \div den
        rem == num % den
    IN  IF 2 * rem > den \/ (2 * rem = den /\ q % 2 = 1) THEN q + 1 ELSE q

\* f"{v:.<DecimalPlaces>f}": the float rounded to DecimalPlaces fractional
\* digits, written as sign, integer digits, point, fractional digits
FormatFixed(v) ==
    LET scaled == RoundHalfEven(Abs(v) * Pow(10, DecimalPlaces), One)
    IN  (IF v < 0 THEN <<"-">> ELSE <<>>)
          \o IntDigits(scaled \div Pow(10, DecimalPlaces))
          \o (IF DecimalPlaces = 0 THEN <<>> ELSE <<".">>)
          \o FracDigits(scaled % Pow(10, DecimalPlaces), DecimalPlaces)

\* the two ANSI escape sequences of lines 126 and 130
RED == "ESC[91m"
RESET == "ESC[0m"

\* zip(value_str, reference_str) stops at the shorter of the two
ZipLen(a, b) == Min(Len(a), Len(b))

\* a loop body that forgets to latch `diverged`
FmtBodyNoLatch(res, div, v_char, r_char) ==
    IF ~div /\ v_char = r_char
    THEN [result |-> Append(res, v_char), diverged |-> div]
    ELSE [result |-> Append(IF ~div THEN Append(res, RED) ELSE res, v_char),
          diverged |-> div]

\* one iteration of the loop of lines 120-127
FmtBody(res, div, v_char, r_char) ==
    IF ~div /\ v_char = r_char
    THEN [result |-> Append(res, v_char), diverged |-> div]
    ELSE [result |-> Append(IF ~div THEN Append(res, RED) ELSE res, v_char),
          diverged |-> TRUE]

\* lines 120-127 from the i-th pair of the zip on
RECURSIVE FmtScan(_, _, _, _, _)
FmtScan(vs, rs, i, res, div) ==
    IF i > ZipLen(vs, rs) THEN [result |-> res, diverged |-> div]
    ELSE LET b == FmtBody(res, div, vs[i], rs[i])
         IN  FmtScan(vs, rs, i + 1, b.result, b.diverged)

\* format_pi_with_color(v, r) as a function of its arguments (lines 114-132)
FormatPiWithColor(v, r) ==
    LET end == FmtScan(FormatFixed(v), FormatFixed(r), 1, <<>>, FALSE)
    IN  IF end.diverged THEN Append(end.result, RESET) ELSE end.result

\* lines 114-118: render both arguments, empty result, not diverged
FmtStart ==
    /\ fpc = "start"
    /\ value_str' = FormatFixed(value)
    /\ reference_str' = FormatFixed(reference)
    /\ result' = <<>>
    /\ diverged' = FALSE
    /\ fi' = 1
    /\ fpc' = "loop"
    /\ UNCHANGED notFmt
    /\ UNCHANGED <<value, reference, fret>>

\* lines 120-127: the next pair of zip(value_str, reference_str)
FmtLoop ==
    /\ fpc = "loop"
    /\ fi <= ZipLen(value_str, reference_str)
    /\ LET b == FmtBody(result, diverged, value_str[fi], reference_str[fi])
       IN  /\ result' = b.result
           /\ diverged' = b.diverged
    /\ fi' = fi + 1
    /\ UNCHANGED notFmt
    /\ UNCHANGED <<value, reference, value_str, reference_str, fpc, fret>>

\* lines 129-132: zip exhausted; close the colour if it was opened, and return
FmtReturn ==
    /\ fpc = "loop"
    /\ fi > ZipLen(value_str, reference_str)
    /\ result' = IF diverged THEN Append(result, RESET) ELSE result
    /\ fret' = result'
    /\ fpc' = "done"
    /\ UNCHANGED notFmt
    /\ UNCHANGED <<value, reference, value_str, reference_str, diverged, fi>>

FmtArgs ==
    /\ value \in FloatArgs
    /\ reference \in FloatArgs
    /\ value_str = <<>>
    /\ reference_str = <<>>
    /\ result = <<>>
    /\ diverged = FALSE
    /\ fi = 0
    /\ fpc = "start"
    /\ fret = <<>>

\* format_pi_with_color not called
FmtIdle ==
    /\ value = 0
    /\ reference = 0
    /\ value_str = <<>>
    /\ reference_str = <<>>
    /\ result = <<>>
    /\ diverged = FALSE
    /\ fi = 0
    /\ fpc = "idle"
    /\ fret = <<>>

----------------------------------------------------------------------------
(* calculate_pi_monte_carlo (lines 16-41).                                 *)

MaxIterations == 3

\* line 34: (x * x + y * y) ** 0.5
SumOfSquares(x, y) == FAdd(FMul(x, x), FMul(y, y))
Distance(x, y) == FSqrt(SumOfSquares(x, y))

\* a loop that runs once too often
McMoreOffByOne(i, n) == i <= n

\* line 28: range(iterations) has another element
McMore(i, n) == i < n

\* a strict comparison at line 36
McInsideStrict(d) == d < One

\* line 36: distance <= 1.0
McInside(d) == d <= One

\* line 26
McStart ==
    /\ mc_pc = "start"
    /\ inside_circle' = 0
    /\ mc_i' = 0
    /\ mc_pc' = "loop"
    /\ UNCHANGED notMc
    /\ UNCHANGED <<iterations, mc_x, mc_y, distance, pi_estimate, draws>>

\* lines 28, 30: next iteration, x = random.random()
McDrawX ==
    /\ mc_pc = "loop"
    /\ McMore(mc_i, iterations)
    /\ mc_x' \in RandomFloats
    /\ draws' = draws + 1
    /\ mc_pc' = "draw_y"
    /\ UNCHANGED notMc
    /\ UNCHANGED <<iterations, inside_circle, mc_i, mc_y, distance, pi_estimate>>

\* line 31: y = random.random()
McDrawY ==
    /\ mc_pc = "draw_y"
    /\ mc_y' \in RandomFloats
    /\ draws' = draws + 1
    /\ mc_pc' = "distance"
    /\ UNCHANGED notMc
    /\ UNCHANGED <<iterations, inside_circle, mc_i, mc_x, distance, pi_estimate>>

\* line 34
McDistance ==
    /\ mc_pc = "distance"
    /\ distance' = Distance(mc_x, mc_y)
    /\ mc_pc' = "check"
    /\ UNCHANGED notMc
    /\ UNCHANGED <<iterations, inside_circle, mc_i, mc_x, mc_y, pi_estimate, draws>>

\* lines 36-37, and back to the head of the loop
McCheck ==
    /\ mc_pc = "check"
    /\ inside_circle' = IF McInside(distance) THEN inside_circle + 1
                        ELSE inside_circle
    /\ mc_i' = mc_i + 1
    /\ mc_pc' = "loop"
    /\ UNCHANGED notMc
    /\ UNCHANGED <<iterations, mc_x, mc_y, distance, pi_estimate, draws>>

\* lines 40-41 with iterations # 0: the estimate is returned
McReturn ==
    /\ mc_pc = "loop"
    /\ ~McMore(mc_i, iterations)
    /\ iterations # 0
    /\ pi_estimate' = FDivInt(FMul(FFromInt(4), FFromInt(inside_circle)), iterations)
    /\ mc_pc' = "done"
    /\ UNCHANGED notMc
    /\ UNCHANGED <<iterations, inside_circle, mc_i, mc_x, mc_y, distance, draws>>

\* line 40 with iterations = 0: the division raises ZeroDivisionError
McRaise ==
    /\ mc_pc = "loop"
    /\ ~McMore(mc_i, iterations)
    /\ iterations = 0
    /\ mc_pc' = "ZeroDivisionError"
    /\ UNCHANGED notMc
    /\ UNCHANGED <<iterations, inside_circle, mc_i, mc_x, mc_y, distance,
                   pi_estimate, draws>>

McArgs ==
    /\ iterations \in 0 .. MaxIterations
    /\ inside_circle = 0
    /\ mc_i = 0
    /\ mc_x = 0
    /\ mc_y = 0
    /\ distance = 0
    /\ pi_estimate = 0
    /\ mc_pc = "start"

\* calculate_pi_monte_carlo not called
McIdle ==
    /\ iterations = 0
    /\ inside_circle = 0
    /\ mc_i = 0
    /\ mc_x = 0
    /\ mc_y = 0
    /\ distance = 0
    /\ pi_estimate = 0
    /\ mc_pc = "idle"

----------------------------------------------------------------------------
(* calculate_pi_buffon_needle (lines 68-100).                              *)

MaxDrops == 2

\* needle_length and line_distance range over the multiples of 0.5 up to
\* MaxHalves / 2
MaxHalves == 3

Lengths == {k * (One \div 2) : k \in 1 .. MaxHalves}

\* math.pi: the float nearest to pi (355/113 agrees with pi to 7 digits)
MathPi == RoundRat(355 * One, 113)

\* math.sin(theta) for 0 <= theta <= math.pi: the float nearest to
\* Bhaskara's rational approximation 16 t (pi - t) / (5 pi^2 - 4 t (pi - t)),
\* which is 0 at 0, positive inside the interval and 1 at pi / 2
MathSin(t) ==
    RoundRat(16 * t * (MathPi - t) * One,
             5 * MathPi * MathPi - 4 * t * (MathPi - t))

\* a / b for floats a and b > 0
FDiv(a, b) == RoundRat(a * One, b)

\* a test that leaves out the lower line
BnCrossesUpperOnly(ye, d) == ye >= FDivInt(d, 2)

\* line 93: y_end >= line_distance / 2 or y_end <= 0
BnCrosses(ye, d) == ye >= FDivInt(d, 2) \/ ye <= 0

\* a guard that lets crosses = 0 through to the division
BnHasCrossesLoose(c) == c >= 0

\* line 97: crosses > 0
BnHasCrosses(c) == c > 0

\* line 98: (2 * needle_length * drops) / (line_distance * crosses)
BnEstimate(l, d, n, c) ==
    FDiv(FMul(FMul(FFromInt(2), l), FFromInt(n)), FMul(d, FFromInt(c)))

\* line 82
BnStart ==
    /\ bn_pc = "start"
    /\ crosses' = 0
    /\ bn_i' = 0
    /\ bn_pc' = "loop"
    /\ UNCHANGED notBn
    /\ UNCHANGED <<drops, needle_length, line_distance, bn_y, theta, y_end,
                   bn_ret, draws>>

\* lines 84, 86: next drop, y = random.random() * (line_distance / 2)
BnDrawY ==
    /\ bn_pc = "loop"
    /\ bn_i < drops
    /\ \E r \in RandomFloats : bn_y' = FMul(r, FDivInt(line_distance, 2))
    /\ draws' = draws + 1
    /\ bn_pc' = "draw_theta"
    /\ UNCHANGED notBn
    /\ UNCHANGED <<drops, needle_length, line_distance, crosses, bn_i, theta,
                   y_end, bn_ret>>

\* line 87: theta = random.random() * math.pi
BnDrawTheta ==
    /\ bn_pc = "draw_theta"
    /\ \E r \in RandomFloats : theta' = FMul(r, MathPi)
    /\ draws' = draws + 1
    /\ bn_pc' = "y_end"
    /\ UNCHANGED notBn
    /\ UNCHANGED <<drops, needle_length, line_distance, crosses, bn_i, bn_y,
                   y_end, bn_ret>>

\* line 90: y_end = y + (needle_length / 2) * math.sin(theta)
BnYEnd ==
    /\ bn_pc = "y_end"
    /\ y_end' = FAdd(bn_y, FMul(FDivInt(needle_length, 2), MathSin(theta)))
    /\ bn_pc' = "check"
    /\ UNCHANGED notBn
    /\ UNCHANGED <<drops, needle_length, line_distance, crosses, bn_i, bn_y,
                   theta, bn_ret, draws>>

\* lines 93-94, and back to the head of the loop
BnCheck ==
    /\ bn_pc = "check"
    /\ crosses' = IF BnCrosses(y_end, line_distance) THEN crosses + 1 ELSE crosses
    /\ bn_i' = bn_i + 1
    /\ bn_pc' = "loop"
    /\ UNCHANGED notBn
    /\ UNCHANGED <<drops, needle_length, line_distance, bn_y, theta, y_end,
                   bn_ret, draws>>

\* lines 97-99: the estimate, or ZeroDivisionError if the divisor is 0
BnReturn ==
    /\ bn_pc = "loop"
    /\ bn_i >= drops
    /\ BnHasCrosses(crosses)
    /\ IF FMul(line_distance, FFromInt(crosses)) = 0
       THEN bn_pc' = "ZeroDivisionError" /\ bn_ret' = bn_ret
       ELSE /\ bn_ret' = BnEstimate(needle_length, line_distance, drops, crosses)
            /\ bn_pc' = "done"
    /\ UNCHANGED notBn
    /\ UNCHANGED <<drops, needle_length, line_distance, crosses, bn_i, bn_y,
                   theta, y_end, draws>>

\* line 100: no crossing, return 0
BnReturnZero ==
    /\ bn_pc = "loop"
    /\ bn_i >= drops
    /\ ~BnHasCrosses(crosses)
    /\ bn_ret' = 0
    /\ bn_pc' = "done"
    /\ UNCHANGED notBn
    /\ UNCHANGED <<drops, needle_length, line_distance, crosses, bn_i, bn_y,
                   theta, y_end, draws>>

BnArgs ==
    /\ drops \in 0 .. MaxDrops
    /\ needle_length \in Lengths
    /\ line_distance \in Lengths
    /\ crosses = 0
    /\ bn_i = 0
    /\ bn_y = 0
    /\ theta = 0
    /\ y_end = 0
    /\ bn_ret = 0
    /\ bn_pc = "start"

\* calculate_pi_buffon_needle not called
BnIdle ==
    /\ drops = 0
    /\ needle_length = One
    /\ line_distance = One
    /\ crosses = 0
    /\ bn_i = 0
    /\ bn_y = 0
    /\ theta = 0
    /\ y_end = 0
    /\ bn_ret = 0
    /\ bn_pc = "idle"

----------------------------------------------------------------------------
(* decimal.Decimal under a context of precision prec.                      *)
(*                                                                         *)
(* A Decimal is [sign, digits, exp] as in Decimal.as_tuple(): the value is *)
(* (-1)^sign * digits * 10^exp with digits a sequence of decimal digits,   *)
(* most significant first.  Every operation returns the exact result       *)
(* rounded to prec significant digits, ROUND_HALF_EVEN.                    *)

Zeros(k) == [i \in 1 .. k |-> 0]

Front(ds) == SubSeq(ds, 1, Len(ds) - 1)

Last(ds) == ds[Len(ds)]

\* ds without its leading zeros (one digit is always kept)
StripLeading(ds) ==
    LET nz == {i \in 1 .. Len(ds) : ds[i] # 0}
    IN  IF nz = {} THEN <<0>>
        ELSE SubSeq(ds, CHOOSE i \in nz : \A k \in nz : i <= k, Len(ds))

RECURSIVE NatDigits(_)
NatDigits(n) == IF n < 10 THEN <<n>> ELSE Append(NatDigits(n \div 10), n % 10)

\* the number a short digit sequence denotes
RECURSIVE ToInt(_)
ToInt(ds) == IF ds = <<>> THEN 0 ELSE 10 * ToInt(Front(ds)) + Last(ds)

AllZero(ds) == \A i \in 1 .. Len(ds) : ds[i] = 0

PadLeft(ds, n) == IF Len(ds) >= n THEN ds ELSE Zeros(n - Len(ds)) \o ds

\* ds + 1
Incr(ds) ==
    LET lt == {i \in 1 .. Len(ds) : ds[i] < 9}
    IN  IF lt = {} THEN <<1>> \o Zeros(Len(ds))
        ELSE LET i == CHOOSE i \in lt : \A k \in lt : k <= i
             IN  SubSeq(ds, 1, i - 1) \o <<ds[i] + 1>> \o Zeros(Len(ds) - i)

\* The three operators below work on the low half of their operands first and
\* hand the carry it leaves to the high half.

\* a + b + c for digit sequences of equal length and a carry c: Len(a)
\* digits, led by one more digit if the sum needs it
RECURSIVE AddDigits(_, _, _)
AddDigits(a, b, c) ==
    IF a = <<>> THEN (IF c = 0 THEN <<>> ELSE <<c>>)
    ELSE IF Len(a) = 1
    THEN (IF a[1] + b[1] + c >= 10 THEN <<1, a[1] + b[1] + c - 10>>
          ELSE <<a[1] + b[1] + c>>)
    ELSE LET h  == Len(a) \div 2
             n  == Len(a) - h
             lo == AddDigits(SubSeq(a, h + 1, Len(a)), SubSeq(b, h + 1, Len(a)), c)
         IN  (IF Len(lo) > n THEN AddDigits(SubSeq(a, 1, h), SubSeq(b, 1, h), 1)
              ELSE AddDigits(SubSeq(a, 1, h), SubSeq(b, 1, h), 0))
               \o SubSeq(lo, Len(lo) - n + 1, Len(lo))

\* does a - b - c need to borrow (a, b digit sequences of equal length)?
RECURSIVE Borrows(_, _, _)
Borrows(a, b, c) ==
    IF a = <<>> THEN c = 1
    ELSE IF Len(a) = 1 THEN a[1] - b[1] - c < 0
    ELSE LET h == Len(a) \div 2
         IN  IF Borrows(SubSeq(a, h + 1, Len(a)), SubSeq(b, h + 1, Len(a)), c)
             THEN Borrows(SubSeq(a, 1, h), SubSeq(b, 1, h), 1)
             ELSE Borrows(SubSeq(a, 1, h), SubSeq(b, 1, h), 0)

\* a - b - c for digit sequences of equal length, modulo 10^Len(a)
RECURSIVE SubDigits(_, _, _)
SubDigits(a, b, c) ==
    IF a = <<>> THEN <<>>
    ELSE IF Len(a) = 1 THEN <<(a[1] - b[1] - c + 10) % 10>>
    ELSE LET h == Len(a) \div 2
         IN  (IF Borrows(SubSeq(a, h + 1, Len(a)), SubSeq(b, h + 1, Len(a)), c)
              THEN SubDigits(SubSeq(a, 1, h), SubSeq(b, 1, h), 1)
              ELSE SubDigits(SubSeq(a, 1, h), SubSeq(b, 1, h), 0))
               \o SubDigits(SubSeq(a, h + 1, Len(a)), SubSeq(b, h + 1, Len(a)), c)

\* a * m + c for a digit sequence a and small naturals m, c: at least Len(a)
\* digits
RECURSIVE MulSmall(_, _, _)
MulSmall(a, m, c) ==
    IF a = <<>> THEN (IF c = 0 THEN <<>> ELSE NatDigits(c))
    ELSE IF Len(a) = 1 THEN NatDigits(a[1] * m + c)
    ELSE LET h  == Len(a) \div 2
             n  == Len(a) - h
             lo == PadLeft(MulSmall(SubSeq(a, h + 1, Len(a)), m, c), n)
             \* the carry is a value before the high half is entered
             hi == CHOOSE ds \in {MulSmall(SubSeq(a, 1, h), m, cc) :
                                     cc \in {ToInt(SubSeq(lo, 1, Len(lo) - n))}} : TRUE
         IN  hi \o SubSeq(lo, Len(lo) - n + 1, Len(lo))

\* a <= b for digit sequences of equal length
DigitsLeq(a, b) ==
    LET df == {i \in 1 .. Len(a) : a[i] # b[i]}
    IN  df = {} \/ LET i == CHOOSE i \in df : \A k \in df : i <= k
                   IN  a[i] < b[i]

DecZero == [sign |-> 0, digits |-> <<0>>, exp |-> 0]

\* Decimal(n) for an int n
DecFromInt(n) ==
    [sign |-> IF n < 0 THEN 1 ELSE 0, digits |-> NatDigits(Abs(n)), exp |-> 0]

\* Decimal._fix: round the coefficient ds (times 10^e, plus something
\* positive below its last digit if sticky) to prec digits, half to even
DecFix(sign, ds, e, sticky, prec) ==
    IF Len(ds) <= prec THEN [sign |-> sign, digits |-> ds, exp |-> e]
    ELSE LET keep    == SubSeq(ds, 1, prec)
             dropped == SubSeq(ds, prec + 1, Len(ds))
             more    == sticky \/ ~AllZero(Tail(dropped))
             up      == \/ Head(dropped) > 5
                        \/ Head(dropped) = 5 /\ more
                        \/ Head(dropped) = 5 /\ ~more /\ Last(keep) % 2 = 1
             new     == IF up THEN Incr(keep) ELSE keep
         IN  IF Len(new) > prec
             THEN [sign |-> sign, digits |-> Front(new), exp |-> e + Len(dropped) + 1]
             ELSE [sign |-> sign, digits |-> new, exp |-> e + Len(dropped)]

\* the remainder left after k digits of the decimal fraction r / d
RECURSIVE RemAfter(_, _, _)
RemAfter(r, d, k) ==
    IF k = 0 \/ r = 0 THEN r
    ELSE IF k = 1 THEN (10 * r) % d
    ELSE CHOOSE x \in {RemAfter(rr, d, k - k \div 2) :
                          rr \in {RemAfter(r, d, k \div 2)}} : TRUE

\* the first k digits of the decimal fraction r / d (0 <= r < d), cut short
\* where the division comes out even
RECURSIVE LongDiv(_, _, _)
LongDiv(r, d, k) ==
    IF k = 0 \/ r = 0 THEN <<>>
    ELSE IF k = 1 THEN <<(10 * r) \div d>>
    ELSE LongDiv(r, d, k \div 2)
           \o (CHOOSE ds \in {LongDiv(rr, d, k - k \div 2) :
                                 rr \in {RemAfter(r, d, k \div 2)}} : TRUE)

\* the number of zeros that open the decimal fraction r / d (0 < r < d)
RECURSIVE LeadZeros(_, _)
LeadZeros(r, d) == IF 10 * r >= d THEN 0 ELSE 1 + LeadZeros(10 * r, d)

\* Decimal(a) / Decimal(b) for ints a and b > 0
DecDivInts(a, b, prec) ==
    IF a = 0 THEN DecZero
    ELSE LET n    == Abs(a)
             ip   == n \div b
             r0   == n % b
             ipd  == IF ip = 0 THEN <<>> ELSE NatDigits(ip)
             z    == IF ip = 0 THEN LeadZeros(r0, b) ELSE 0
             want == IF z + prec + 1 > Len(ipd) THEN z + prec + 1 - Len(ipd) ELSE 0
             frac == LongDiv(r0, b, want)
         IN  DecFix(IF a < 0 THEN 1 ELSE 0, StripLeading(ipd \o frac),
                    -Len(frac), RemAfter(r0, b, want) # 0, prec)

\* x + y
DecAdd(x, y, prec) ==
    LET e  == Min(x.exp, y.exp)
        xa == x.digits \o Zeros(x.exp - e)
        ya == y.digits \o Zeros(y.exp - e)
        n  == IF Len(xa) >= Len(ya) THEN Len(xa) ELSE Len(ya)
        xp == PadLeft(xa, n)
        yp == PadLeft(ya, n)
    IN  IF x.sign = y.sign
        THEN DecFix(x.sign, StripLeading(AddDigits(xp, yp, 0)), e, FALSE, prec)
        ELSE IF xp = yp THEN [sign |-> 0, digits |-> <<0>>, exp |-> e]
        ELSE IF DigitsLeq(yp, xp)
        THEN DecFix(x.sign, StripLeading(SubDigits(xp, yp, 0)), e, FALSE, prec)
        ELSE DecFix(y.sign, StripLeading(SubDigits(yp, xp, 0)), e, FALSE, prec)

\* x * m for a Decimal x and a positive int m
DecMulInt(x, m, prec) ==
    DecFix(x.sign, StripLeading(MulSmall(x.digits, m, 0)), x.exp, FALSE, prec)

\* float(x) for a Decimal x >= 0: the float nearest to its value
DecToFloat(x) ==
    LET k    == IF x.exp < 0 THEN -x.exp ELSE 0
        all  == PadLeft(x.digits \o Zeros(IF x.exp > 0 THEN x.exp ELSE 0), k + 1)
        ip   == ToInt(SubSeq(all, 1, Len(all) - k))
        frac == SubSeq(all, Len(all) - k + 1, Len(all))
        \* frac * 2 * One: k fractional digits, the rest is its integer part
        prod == PadLeft(MulSmall(frac, 2 * One, 0), k + 1)
        n2   == ip * 2 * One + ToInt(SubSeq(prod, 1, Len(prod) - k))
        rest == SubSeq(prod, Len(prod) - k + 1, Len(prod))
    IN  IF AllZero(rest) THEN RoundRat(n2, 2) ELSE RoundRat(2 * n2 + 1, 4)

----------------------------------------------------------------------------
(* calculate_pi_leibniz (lines 44-65) and the decimal context it shares    *)
(* with every other user of decimal arithmetic in the thread.              *)

MaxTerms == 6

\* line 55: getcontext().prec = 50
LeibnizPrec == 50

\* the precisions the caller's context and another user of decimal may have
MaxPrec == 4

\* a numerator whose sign starts negative
LzNumeratorNegativeFirst(n) == IF n % 2 = 0 THEN -1 ELSE 1

\* line 60: (-1) ** n
LzNumerator(n) == IF n % 2 = 0 THEN 1 ELSE -1

\* line 61: 2 * n + 1
LzDenominator(n) == 2 * n + 1

\* a call: the arguments are bound, nothing has run yet
LzCall ==
    /\ lz_pc \in {"idle", "done"}
    /\ terms' \in 0 .. MaxTerms
    /\ prec_at_call' = ctx_prec
    /\ lz_n' = 0
    /\ numerator' = DecZero
    /\ denominator' = DecZero
    /\ term' = DecZero
    /\ pi_over_4' = DecZero
    /\ lz_ret' = 0
    /\ lz_pc' = "start"
    /\ UNCHANGED notLz
    /\ UNCHANGED <<ctx_prec, other_prec, other_val>>

\* lines 55-57: set the context's precision, pi_over_4 = Decimal(0)
LzStart ==
    /\ lz_pc = "start"
    /\ ctx_prec' = LeibnizPrec
    /\ pi_over_4' = DecFromInt(0)
    /\ lz_n' = 0
    /\ lz_pc' = "loop"
    /\ UNCHANGED notLz
    /\ UNCHANGED <<terms, numerator, denominator, term, lz_ret, prec_at_call,
                   other_prec, other_val>>

\* lines 59-62: the next n of range(terms), and its term
LzTerm ==
    /\ lz_pc = "loop"
    /\ lz_n < terms
    /\ numerator' = DecFromInt(LzNumerator(lz_n))
    /\ denominator' = DecFromInt(LzDenominator(lz_n))
    /\ term' = DecDivInts(LzNumerator(lz_n), LzDenominator(lz_n), ctx_prec)
    /\ lz_pc' = "add"
    /\ UNCHANGED notLz
    /\ UNCHANGED <<terms, pi_over_4, lz_n, lz_ret, ctx_prec, prec_at_call,
                   other_prec, other_val>>

\* line 63: pi_over_4 += term
LzAdd ==
    /\ lz_pc = "add"
    /\ pi_over_4' = DecAdd(pi_over_4, term, ctx_prec)
    /\ lz_n' = lz_n + 1
    /\ lz_pc' = "loop"
    /\ UNCHANGED notLz
    /\ UNCHANGED <<terms, numerator, denominator, term, lz_ret, ctx_prec,
                   prec_at_call, other_prec, other_val>>

\* line 65: return float(pi_over_4 * 4)
LzReturn ==
    /\ lz_pc = "loop"
    /\ lz_n >= terms
    /\ lz_ret' = DecToFloat(DecMulInt(pi_over_4, 4, ctx_prec))
    /\ lz_pc' = "done"
    /\ UNCHANGED notLz
    /\ UNCHANGED <<terms, pi_over_4, lz_n, numerator, denominator, term,
                   ctx_prec, prec_at_call, other_prec, other_val>>

\* between calls, another user of decimal sets the precision it needs
OtherSetPrec ==
    /\ lz_pc \in {"idle", "done"}
    /\ \E p \in 1 .. MaxPrec : ctx_prec' = p /\ other_prec' = p
    /\ UNCHANGED notLz
    /\ UNCHANGED <<terms, pi_over_4, lz_n, numerator, denominator, term, lz_ret,
                   lz_pc, prec_at_call, other_val>>

\* between calls, that user divides 1 by 3 in the current context
OtherDivide ==
    /\ lz_pc \in {"idle", "done"}
    /\ other_prec # 0
    /\ other_val' = DecDivInts(1, 3, ctx_prec)
    /\ UNCHANGED notLz
    /\ UNCHANGED <<terms, pi_over_4, lz_n, numerator, denominator, term, lz_ret,
                   lz_pc, ctx_prec, prec_at_call, other_prec>>

LzArgs ==
    /\ terms = 0
    /\ pi_over_4 = DecZero
    /\ lz_n = 0
    /\ numerator = DecZero
    /\ denominator = DecZero
    /\ term = DecZero
    /\ lz_ret = 0
    /\ lz_pc = "idle"
    /\ ctx_prec \in 1 .. MaxPrec
    /\ prec_at_call = 0
    /\ other_prec = 0
    /\ other_val = DecZero

\* calculate_pi_leibniz not called, decimal not used
LzIdle ==
    /\ terms = 0
    /\ pi_over_4 = DecZero
    /\ lz_n = 0
    /\ numerator = DecZero
    /\ denominator = DecZero
    /\ term = DecZero
    /\ lz_ret = 0
    /\ lz_pc = "idle"
    /\ ctx_prec = 1
    /\ prec_at_call = 0
    /\ other_prec = 0
    /\ other_val = DecZero

----------------------------------------------------------------------------
(* main (lines 135-216).                                                   *)
(*                                                                         *)
(* The three estimators run with 10,000,000 points, 5,000,000 terms and    *)
(* 2,000,000 drops.  Such a call is one step here: it returns some float   *)
(* in the range of the estimator, or an exception leaves it and, main      *)
(* catching nothing, leaves main too.  A local that is not bound yet is    *)
(* <<>>, a bound one is <<its value>>.                                     *)

\* line 184: actual_pi = 3.14159265358979323846, the same float as math.pi
ActualPi == MathPi

\* calculate_pi_monte_carlo returns 4.0 * inside_circle / iterations in [0, 4]
MonteCarloResults == FloatsUpTo(4 * One)

\* calculate_pi_leibniz returns 4 times a partial sum, between 8/3 and 4
LeibnizResults == {f \in FloatsUpTo(4 * One) : f >= RoundRat(8 * One, 3)}

\* calculate_pi_buffon_needle(drops) returns 0 or 2 * drops / crosses >= 2
BuffonResults == {f \in FloatsUpTo(MaxArgUnits * One) : f = 0 \/ f >= 2 * One}

\* tracker.stop() returns the emissions of the call, a float >= 0
Emissions == {0, One}

\* a - b for floats a >= b
FSub(a, b) == RoundRat(a - b, 1)

\* abs(a - b)
FAbsDiff(a, b) == RoundRat(Abs(a - b), 1)

\* a summary row that shows the Monte Carlo estimate whatever it is given
SummaryRowOfMonteCarlo(method, estimate) ==
    [method |-> method,
     value  |-> FormatPiWithColor(pi_monte_carlo[1], ActualPi),
     error  |-> FAbsDiff(pi_monte_carlo[1], ActualPi)]

\* lines 190-192: method, coloured value, absolute error
SummaryRow(method, estimate) ==
    [method |-> method,
     value  |-> FormatPiWithColor(estimate, ActualPi),
     error  |-> FAbsDiff(estimate, ActualPi)]

\* lines 208-210: method, emissions, per cent more than the minimum
EmissionRow(entry, min_emissions) ==
    [method    |-> entry[1],
     emissions |-> entry[2],
     diff_pct  |-> IF min_emissions > 0
                   THEN FMul(FDiv(FSub(entry[2], min_emissions), min_emissions),
                             FFromInt(100))
                   ELSE 0]

SeqMin(q) == CHOOSE m \in {q[i] : i \in 1 .. Len(q)} : \A i \in 1 .. Len(q) : m <= q[i]

RECURSIVE FSum(_)
FSum(q) == IF q = <<>> THEN 0 ELSE FAdd(FSum(Front(q)), Last(q))

\* lines 137-142
MainStart ==
    /\ mn_pc = "start"
    /\ emissions_data' = <<>>
    /\ mn_pc' = "monte_carlo"
    /\ UNCHANGED notMain
    /\ UNCHANGED <<pi_monte_carlo, pi_leibniz, pi_buffon, rows, emission_rows,
                   total_emissions>>

\* lines 145-155: the Monte Carlo estimate and its emissions
MainMonteCarlo ==
    /\ mn_pc = "monte_carlo"
    /\ \E est \in MonteCarloResults : pi_monte_carlo' = <<est>>
    /\ \E e \in Emissions :
         emissions_data' = Append(emissions_data, <<"Monte Carlo", e>>)
    /\ mn_pc' = "leibniz"
    /\ UNCHANGED notMain
    /\ UNCHANGED <<pi_leibniz, pi_buffon, rows, emission_rows, total_emissions>>

\* lines 158-168: the Leibniz estimate and its emissions
MainLeibniz ==
    /\ mn_pc = "leibniz"
    /\ \E est \in LeibnizResults : pi_leibniz' = <<est>>
    /\ \E e \in Emissions :
         emissions_data' = Append(emissions_data, <<"Leibniz", e>>)
    /\ mn_pc' = "buffon"
    /\ UNCHANGED notMain
    /\ UNCHANGED <<pi_monte_carlo, pi_buffon, rows, emission_rows, total_emissions>>

\* lines 171-181: the Buffon estimate and its emissions
MainBuffon ==
    /\ mn_pc = "buffon"
    /\ \E est \in BuffonResults : pi_buffon' = <<est>>
    /\ \E e \in Emissions :
         emissions_data' = Append(emissions_data, <<"Buffon Needle", e>>)
    /\ mn_pc' = "row_monte_carlo"
    /\ UNCHANGED notMain
    /\ UNCHANGED <<pi_monte_carlo, pi_leibniz, rows, emission_rows, total_emissions>>

\* lines 151, 164, 177: an exception leaves the estimator; main has no
\* handler, so it leaves main and nothing more is printed
MainEstimatorRaises ==
    /\ mn_pc \in {"monte_carlo", "leibniz", "buffon"}
    /\ mn_pc' = "raised"
    /\ UNCHANGED notMain
    /\ UNCHANGED <<pi_monte_carlo, pi_leibniz, pi_buffon, emissions_data, rows,
                   emission_rows, total_emissions>>

\* lines 184-190
MainRowMonteCarlo ==
    /\ mn_pc = "row_monte_carlo"
    /\ rows' = Append(rows, SummaryRow("Monte Carlo", pi_monte_carlo[1]))
    /\ mn_pc' = "row_leibniz"
    /\ UNCHANGED notMain
    /\ UNCHANGED <<pi_monte_carlo, pi_leibniz, pi_buffon, emissions_data,
                   emission_rows, total_emissions>>

\* line 191
MainRowLeibniz ==
    /\ mn_pc = "row_leibniz"
    /\ rows' = Append(rows, SummaryRow("Leibniz", pi_leibniz[1]))
    /\ mn_pc' = "row_buffon"
    /\ UNCHANGED notMain
    /\ UNCHANGED <<pi_monte_carlo, pi_leibniz, pi_buffon, emissions_data,
                   emission_rows, total_emissions>>

\* line 192
MainRowBuffon ==
    /\ mn_pc = "row_buffon"
    /\ rows' = Append(rows, SummaryRow("Buffon Needle", pi_buffon[1]))
    /\ mn_pc' = "row_actual"
    /\ UNCHANGED notMain
    /\ UNCHANGED <<pi_monte_carlo, pi_leibniz, pi_buffon, emissions_data,
                   emission_rows, total_emissions>>

\* lines 193-194: the row of the reference value
MainRowActual ==
    /\ mn_pc = "row_actual"
    /\ rows' = Append(rows, [method |-> "Actual pi", value |-> FormatFixed(ActualPi)])
    /\ mn_pc' = "emissions"
    /\ UNCHANGED notMain
    /\ UNCHANGED <<pi_monte_carlo, pi_leibniz, pi_buffon, emissions_data,
                   emission_rows, total_emissions>>

\* lines 197-216: the emissions table and its total
MainEmissions ==
    /\ mn_pc = "emissions"
    /\ LET min_emissions == SeqMin([i \in 1 .. Len(emissions_data) |->
                                      emissions_data[i][2]])
       IN  emission_rows' = [i \in 1 .. Len(emissions_data) |->
                               EmissionRow(emissions_data[i], min_emissions)]
    /\ total_emissions' = FSum([i \in 1 .. Len(emissions_data) |->
                                  emissions_data[i][2]])
    /\ mn_pc' = "done"
    /\ UNCHANGED notMain
    /\ UNCHANGED <<pi_monte_carlo, pi_leibniz, pi_buffon, emissions_data, rows>>

MainArgs ==
    /\ pi_monte_carlo = <<>>
    /\ pi_leibniz = <<>>
    /\ pi_buffon = <<>>
    /\ emissions_data = <<>>
    /\ rows = <<>>
    /\ emission_rows = <<>>
    /\ total_emissions = 0
    /\ mn_pc = "start"

\* main not called
MainIdle ==
    /\ pi_monte_carlo = <<>>
    /\ pi_leibniz = <<>>
    /\ pi_buffon = <<>>
    /\ emissions_data = <<>>
    /\ rows = <<>>
    /\ emission_rows = <<>>
    /\ total_emissions = 0
    /\ mn_pc = "idle"

----------------------------------------------------------------------------
(* The specifications: one per function, the other functions idle.         *)

FmtInit == FmtArgs /\ McIdle /\ BnIdle /\ LzIdle /\ MainIdle /\ draws = 0

FmtNext == FmtStart \/ FmtLoop \/ FmtReturn

SpecFormat == FmtInit /\ [][FmtNext]_vars

McInit == McArgs /\ FmtIdle /\ BnIdle /\ LzIdle /\ MainIdle /\ draws = 0

McNext ==
    McStart \/ McDrawX \/ McDrawY \/ McDistance \/ McCheck \/ McReturn \/ McRaise

SpecMonteCarlo == McInit /\ [][McNext]_vars

BnInit == BnArgs /\ FmtIdle /\ McIdle /\ LzIdle /\ MainIdle /\ draws = 0

BnNext ==
    BnStart \/ BnDrawY \/ BnDrawTheta \/ BnYEnd \/ BnCheck \/ BnReturn
      \/ BnReturnZero

SpecBuffon == BnInit /\ [][BnNext]_vars

LzInit == LzArgs /\ FmtIdle /\ McIdle /\ BnIdle /\ MainIdle /\ draws = 0

LzNext ==
    LzCall \/ LzStart \/ LzTerm \/ LzAdd \/ LzReturn \/ OtherSetPrec \/ OtherDivide

SpecLeibniz == LzInit /\ [][LzNext]_vars

MainInit == MainArgs /\ FmtIdle /\ McIdle /\ BnIdle /\ LzIdle /\ draws = 0

MainNext ==
    MainStart \/ MainMonteCarlo \/ MainLeibniz \/ MainBuffon \/ MainEstimatorRaises
      \/ MainRowMonteCarlo \/ MainRowLeibniz \/ MainRowBuffon \/ MainRowActual
      \/ MainEmissions

SpecMain == MainInit /\ [][MainNext]_vars

----------------------------------------------------------------------------
(* Properties of format_pi_with_color.                                     *)

\* positions of the zip at which the two renderings differ
Mismatches(a, b) == {i \in 1 .. ZipLen(a, b) : a[i] # b[i]}

SetMin(S) == CHOOSE m \in S : \A k \in S : m <= k

\* number of occurrences of e in the sequence s
Count(s, e) == Cardinality({i \in 1 .. Len(s) : s[i] = e})

\* the sequence s without its marker elements
RECURSIVE StripMarkers(_)
StripMarkers(s) ==
    IF s = <<>> THEN <<>>
    ELSE IF Head(s) \in {RED, RESET} THEN StripMarkers(Tail(s))
    ELSE <<Head(s)>> \o StripMarkers(Tail(s))

\* what the scan is to produce from renderings a (value) and b (reference)
Annotated(a, b) ==
    LET n == ZipLen(a, b)
        m == Mismatches(a, b)
    IN  IF m = {} THEN SubSeq(a, 1, n)
        ELSE SubSeq(a, 1, SetMin(m) - 1) \o <<RED>>
               \o SubSeq(a, SetMin(m), n) \o <<RESET>>

C2_PrintableContentPreserved ==
    fpc = "done" => StripMarkers(fret) = FormatFixed(value)

----------------------------------------------------------------------------
(* Properties of calculate_pi_monte_carlo.                                 *)

\* the counter stays within the points completed; the estimate is in [0, 4]
McCounterInRange ==
    /\ mc_pc \in {"loop", "draw_y", "distance", "check"} =>
         (0 <= inside_circle /\ inside_circle <= mc_i /\ mc_i <= iterations)
    /\ mc_pc = "done" =>
         /\ iterations >= 1
         /\ 0 <= inside_circle /\ inside_circle <= iterations
         /\ 0 <= pi_estimate /\ pi_estimate <= 4 * One

\* the real number x*x + y*y is at most 1
ExactInside(x, y) == x * x + y * y <= One * One

\* C5 as amended: the counter stays within 0 .. points drawn, it is
\* incremented exactly for the points whose computed distance
\* (x*x + y*y) ** 0.5 is <= 1.0, which covers every point with
\* x*x + y*y <= 1, and the estimate returned for iterations >= 1 is in [0, 4].
C5_CountsComputedDistance ==
    /\ []McCounterInRange
    /\ [][(mc_pc = "check" /\ mc_pc' = "loop") =>
            /\ inside_circle' \in {inside_circle, inside_circle + 1}
            /\ inside_circle' = inside_circle + 1
                 <=> Distance(mc_x, mc_y) <= One
            /\ SumOfSquares(mc_x, mc_y) <= One
                 => inside_circle' = inside_circle + 1
            /\ ExactInside(mc_x, mc_y)
                 => inside_circle' = inside_circle + 1]_vars

\* the loop has just counted a point whose sum of squares is above 1.0 and
\* whose distance rounds to 1.0
C5_Witness ==
    /\ mc_pc = "loop"
    /\ mc_i >= 1
    /\ inside_circle >= 1
    /\ SumOfSquares(mc_x, mc_y) > One
    /\ ~ExactInside(mc_x, mc_y)
    /\ distance = Distance(mc_x, mc_y)
    /\ distance = One

\* C5: the counter is incremented exactly for the points with
\* x*x + y*y <= 1 (and stays in range, and the estimate is in [0, 4]).
C5_CountsSumAtMostOne ==
    /\ []McCounterInRange
    /\ [][(mc_pc = "check" /\ mc_pc' = "loop") =>
            (inside_circle' = inside_circle + 1
               <=> SumOfSquares(mc_x, mc_y) <= One)]_vars

\* C6: the call consumes two draws per loop iteration, x first and then y,
\* none before or after the loop: 2 * iterations draws when it ends,
\* however many points were counted.
C6_TwoDrawsPerIteration ==
    /\ mc_pc = "start" => draws = 0
    /\ mc_pc = "loop" => draws = 2 * mc_i
    /\ mc_pc = "draw_y" => draws = 2 * mc_i + 1
    /\ mc_pc \in {"distance", "check"} => draws = 2 * mc_i + 2
    /\ mc_pc \in {"done", "ZeroDivisionError"} => draws = 2 * iterations

\* a finished call of several iterations with hits and misses
C6_Witness ==
    /\ mc_pc = "done"
    /\ iterations >= 2
    /\ draws = 2 * iterations
    /\ 0 < inside_circle /\ inside_circle < iterations

----------------------------------------------------------------------------
(* Properties of calculate_pi_buffon_needle.                               *)

\* C7: for drops >= 1 the call returns (2 * needle_length * drops) /
\* (line_distance * crosses) when crosses > 0 and exactly 0 when
\* crosses = 0; the count stays within 0 .. drops, and the division never
\* has a zero divisor.
C7_EstimateOrZero ==
    /\ bn_pc # "ZeroDivisionError"
    /\ bn_pc \in {"loop", "draw_theta", "y_end", "check"} =>
         (0 <= crosses /\ crosses <= bn_i /\ bn_i <= drops)
    /\ (bn_pc = "done" /\ drops >= 1) =>
         /\ 0 <= crosses /\ crosses <= drops
         /\ crosses = 0 => bn_ret = 0
         /\ crosses > 0 =>
              /\ FMul(line_distance, FFromInt(crosses)) > 0
              /\ bn_ret = FDiv(FMul(FMul(2 * One, needle_length), FFromInt(drops)),
                               FMul(line_distance, FFromInt(crosses)))

\* a finished call in which some drops crossed and some did not
C7_Witness ==
    /\ bn_pc = "done"
    /\ drops >= 2
    /\ 0 < crosses /\ crosses < drops
    /\ bn_ret > 0

\* C10 as amended: a drop is counted exactly when y_end <= 0 or
\* y_end >= line_distance / 2, so the boundary value y_end = 0 is counted.
C10_CountsClosedLowerBoundary ==
    /\ [](bn_pc = "check" =>
            y_end = FAdd(bn_y, FMul(FDivInt(needle_length, 2), MathSin(theta))))
    /\ [][(bn_pc = "check" /\ bn_pc' = "loop") =>
            /\ crosses' \in {crosses, crosses + 1}
            /\ crosses' = crosses + 1
                 <=> (y_end <= 0 \/ y_end >= FDivInt(line_distance, 2))
            /\ crosses' = crosses
                 <=> (0 < y_end /\ y_end < FDivInt(line_distance, 2))]_vars

\* the first drop fell on the line (y = 0, theta = 0) and was counted
C10_Witness ==
    /\ bn_pc = "loop"
    /\ bn_i = 1
    /\ bn_y = 0 /\ theta = 0 /\ y_end = 0
    /\ crosses = 1

\* C10: a drop is counted exactly when y_end < 0 or
\* y_end >= line_distance / 2; a drop with y_end = 0 is not counted.
C10_CountsOutsideHalfOpen ==
    [][(bn_pc = "check" /\ bn_pc' = "loop") =>
         (crosses' = crosses + 1
            <=> (y_end < 0 \/ y_end >= FDivInt(line_distance, 2)))]_vars

----------------------------------------------------------------------------
(* Properties of calculate_pi_leibniz.                                     *)

\* the sum over n = 0 .. k-1 of (-1)^n / (2n+1) is PartialNum(k) / PartialDen(k)
RECURSIVE PartialDen(_)
PartialDen(k) == IF k = 0 THEN 1 ELSE PartialDen(k - 1) * (2 * k - 1)

RECURSIVE PartialNum(_)
PartialNum(k) ==
    IF k = 0 THEN 0
    ELSE PartialNum(k - 1) * (2 * k - 1)
           + (IF (k - 1) % 2 = 0 THEN 1 ELSE -1) * PartialDen(k - 1)

\* |a - b| for digit sequences
DigitsDistance(a, b) ==
    LET n  == IF Len(a) >= Len(b) THEN Len(a) ELSE Len(b)
        ap == PadLeft(a, n)
        bp == PadLeft(b, n)
    IN  IF DigitsLeq(ap, bp) THEN SubDigits(bp, ap, 0) ELSE SubDigits(ap, bp, 0)

\* the Decimal x >= 0 is within k * 10^-LeibnizPrec of the partial sum of
\* the first k terms: with E = LeibnizPrec + 2,
\* |x * PartialDen(k) * 10^E - PartialNum(k) * 10^E| <= 100 * k * PartialDen(k)
NearPartialSum(x, k) ==
    /\ x.sign = 0
    /\ x.exp + LeibnizPrec + 2 >= 0
    /\ LET scaled == MulSmall(x.digits, PartialDen(k), 0)
                       \o Zeros(x.exp + LeibnizPrec + 2)
           exact  == NatDigits(PartialNum(k)) \o Zeros(LeibnizPrec + 2)
           dist   == DigitsDistance(scaled, exact)
           bound  == NatDigits(100 * k * PartialDen(k))
       IN  DigitsLeq(PadLeft(dist, Len(dist) + Len(bound)),
                     PadLeft(bound, Len(dist) + Len(bound)))

\* C8: for terms >= 1 the call accumulates exactly `terms` signed terms
\* (-1)^n / (2n+1), n = 0 .. terms-1, the sign alternating from positive, and
\* returns 4 times that partial sum (as the nearest float);
\* calculate_pi_leibniz(1) returns exactly 4.0.
C8_FourTimesPartialSum ==
    /\ lz_pc \in {"loop", "add", "done"} =>
         /\ lz_n <= terms
         /\ NearPartialSum(pi_over_4, lz_n)
    /\ lz_pc = "add" =>
         /\ lz_n < terms
         /\ numerator = DecFromInt(IF lz_n % 2 = 0 THEN 1 ELSE -1)
         /\ denominator = DecFromInt(2 * lz_n + 1)
         /\ term.sign = lz_n % 2
    /\ (lz_pc = "done" /\ terms >= 1) =>
         /\ lz_n = terms
         /\ lz_ret = RoundRat(4 * PartialNum(terms) * One, PartialDen(terms))
         /\ terms = 1 => lz_ret = 4 * One

\* a finished call of several terms
C8_Witness ==
    /\ lz_pc = "done"
    /\ terms >= 3
    /\ lz_n = terms
    /\ Len(pi_over_4.digits) = LeibnizPrec

\* C3: a call with a sample count of 0 fails with an error and returns no
\* estimate, whichever estimator is called.
C3_ZeroCountRejected ==
    /\ lz_pc = "done" => terms # 0
    /\ mc_pc = "done" => iterations # 0
    /\ bn_pc = "done" => drops # 0

\* C4: the precision calculate_pi_leibniz sets does not leak: when the call
\* has returned the context's precision is what it was when the call was
\* made, and the precision another user of decimal set is still in force.
C4_PrecisionScoped ==
    /\ lz_pc = "done" => ctx_prec = prec_at_call
    /\ (lz_pc \in {"idle", "done"} /\ other_prec # 0) => ctx_prec = other_prec

----------------------------------------------------------------------------
(* Properties of main.                                                     *)

SummaryMethods == <<"Monte Carlo", "Leibniz", "Buffon Needle", "Actual pi">>

\* the estimates in the order of the summary
EstimateLocals == <<pi_monte_carlo, pi_leibniz, pi_buffon>>

\* C9: a run that completes prints one summary row per method, in the order
\* Monte Carlo, Leibniz, Buffon Needle, and then the row of the reference
\* value; a method's row shows that method's own estimate against the one
\* reference constant and an absolute error >= 0.  If an estimator call
\* fails, no row is printed for it, from a substitute value or otherwise.
C9_OneRowPerMethod ==
    /\ Len(rows) <= 4
    /\ \A i \in 1 .. Len(rows) : rows[i].method = SummaryMethods[i]
    /\ \A i \in 1 .. Len(rows) : i <= 3 =>
         /\ EstimateLocals[i] # <<>>
         /\ rows[i].value = FormatPiWithColor(EstimateLocals[i][1], ActualPi)
         /\ rows[i].error = FAbsDiff(EstimateLocals[i][1], ActualPi)
         /\ rows[i].error >= 0
         /\ rows[i].error = 0 <=> EstimateLocals[i][1] = ActualPi
    /\ Len(rows) = 4 => rows[4].value = FormatFixed(ActualPi)
    /\ mn_pc \in {"emissions", "done"} => Len(rows) = 4
    /\ mn_pc = "raised" => rows = <<>>
    /\ mn_pc = "raised" => pi_buffon = <<>>

\* a completed run whose three estimates differ from each other
C9_Witness ==
    /\ mn_pc = "done"
    /\ Len(rows) = 4
    /\ pi_monte_carlo # pi_leibniz
    /\ pi_leibniz # pi_buffon
    /\ pi_monte_carlo # pi_buffon
    /\ rows[2].error = 0
    /\ rows[1].error > 0

====
